---------------------------- MODULE Spec2Model ----------------------------
(***************************************************************************)
(* Foodgram backend: the entity store (recipes/models.py), the request     *)
(* validation and persistence of the serializers (api/serializers.py) and  *)
(* the handlers of the view sets (api/views.py).                           *)
(*                                                                         *)
(* A table is a bag of rows, so that two rows with the same key are a      *)
(* state the model can express; a UniqueConstraint is the guard of the     *)
(* INSERT.  An exception that no handler catches ends the request with     *)
(* status "500" and the exception's name as detail.                        *)
(***************************************************************************)
EXTENDS Integers, Sequences, FiniteSets, Bags, TLC

\* ------------------------------------------------------------ bounds
NumUsers == 2
MaxRecipes == 2
NumIngredients == 2
NumTags == 1
MaxAmount == 2
MaxListLen == 2
MaxInflight == 2

\* ------------------------------------------------- program constants
AnonymousUser == 0
MinNameLen == 4
MinAmount == 1
MinCookingTime == 1
MaxCookingTime == 300

Users == 1..NumUsers
RecipeIds == 1..MaxRecipes
IngredientIds == 1..NumIngredients
TagIds == 1..NumTags

VARIABLES
    recipe,             \* Recipe rows: [id, author, name, cooking_time]
    recipe_tags,        \* Recipe.tags through table: [recipe, tag]
    ingredient_amount,  \* IngredientAmount rows (bag): [recipe, ingredient, amount]
    favorite_recipe,    \* FavoriteRecipe rows (bag): [user, favorite_recipe]
    cart,               \* Cart rows (bag): [user, recipe]
    subscribe,          \* Subscribe rows (bag): [user, author]
    inflight,           \* requests between two of their statements (bag)
    request,            \* the payload under validation
    response            \* the response to the last finished request

vars == <<recipe, recipe_tags, ingredient_amount, favorite_recipe, cart,
          subscribe, inflight, request, response>>

store == <<recipe, recipe_tags, ingredient_amount, favorite_recipe, cart,
           subscribe>>

\* ------------------------------------------------------------ helpers
Row(r) == SetToBag({r})

\* QuerySet.filter(...).exists()
Exists(table, r) == CopiesIn(r, table) > 0

Null == <<>>
Some(v) == <<v>>

NoBody == <<>>

\* A response: the handler, the requester, the object the URL names, the
\* HTTP status, the error map (key -> message; an uncaught exception is
\* the one entry with its name) and the body's rows.
ResponseWith(op, user, target, status, errors, body) ==
    [op |-> op, user |-> user, target |-> target, status |-> status,
     errors |-> errors, body |-> body]

Error(key, detail) == [key |-> key, detail |-> detail]

Response(op, user, target, status, key, detail, body) ==
    ResponseWith(op, user, target, status,
                 IF detail = "" THEN {} ELSE {Error(key, detail)}, body)

NoResponse == Response("none", AnonymousUser, 0, "", "", "", NoBody)

NoRequest == [partial |-> FALSE]

is_authenticated(u) == u # AnonymousUser

\* get_object_or_404(Recipe, id=...)
RecipeExists(r) == \E x \in recipe : x.id = r

\* ------------------------------------------------------------ Ingredient
\* Ingredient rows are seed data: no handler creates one.  (name,
\* measurement_unit) is unique; two consecutive ids share a name.
Ingredient(i) == [name |-> (i + 1) \div 2, measurement_unit |-> i % 2]

IngredientExists(i) == i \in IngredientIds

\* ------------------------------------------------------- FavoriteRecipe
\* FavoriteRecipeSerializer.validate without its existence check
FavoriteRecipeSerializer_validate_unchecked(u, r) ==
    [ok |-> TRUE, key |-> "", detail |-> ""]

\* FavoriteRecipeSerializer.validate: the application-level existence check
FavoriteRecipeSerializer_validate(u, r) ==
    IF Exists(favorite_recipe, [user |-> u, favorite_recipe |-> r])
    THEN [ok |-> FALSE, key |-> "errors", detail |-> "RECIPE_ALREADY_IN_FAVORITE"]
    ELSE [ok |-> TRUE, key |-> "", detail |-> ""]

\* FavoriteRecipe without its UniqueConstraint: the database takes any row
unique_favourite_dropped(row) == TRUE

\* UniqueConstraint unique_favourite: TRUE when the database takes the row
unique_favourite(row) == ~Exists(favorite_recipe, row)

\* FavoriteRecipeViewSet.perform_create: get_object_or_404, then the INSERT
FavoriteRecipe_perform_create(u, r) ==
    LET row == [user |-> u, favorite_recipe |-> r] IN
    IF ~RecipeExists(r)
    THEN /\ response' = Response("favorite_create", u, r, "404", "detail", "Http404", NoBody)
         /\ UNCHANGED favorite_recipe
    ELSE IF ~unique_favourite(row)
    THEN /\ response' = Response("favorite_create", u, r, "500", "", "IntegrityError", NoBody)
         /\ UNCHANGED favorite_recipe
    ELSE /\ favorite_recipe' = favorite_recipe (+) Row(row)
         /\ response' = Response("favorite_create", u, r, "201", "", "", NoBody)

\* POST recipes/<recipe_id>/favorite/ as one step
FavoriteRecipeCreate(u, r) ==
    /\ IF ~FavoriteRecipeSerializer_validate(u, r).ok
       THEN /\ response' = Response("favorite_create", u, r, "400",
                                    FavoriteRecipeSerializer_validate(u, r).key,
                                    FavoriteRecipeSerializer_validate(u, r).detail, NoBody)
            /\ UNCHANGED favorite_recipe
       ELSE FavoriteRecipe_perform_create(u, r)
    /\ UNCHANGED <<recipe, recipe_tags, ingredient_amount, cart, subscribe,
                   inflight, request>>

\* Model.objects.get(...).delete() behind get_object_or_404: one row is
\* deleted, no row is Http404, several rows are MultipleObjectsReturned.
GetAndDelete(table, row) ==
    IF CopiesIn(row, table) = 0 THEN [status |-> "404", detail |-> "Http404", table |-> table]
    ELSE IF CopiesIn(row, table) > 1
    THEN [status |-> "500", detail |-> "MultipleObjectsReturned", table |-> table]
    ELSE [status |-> "204", detail |-> "", table |-> table (-) Row(row)]

\* FavoriteRecipeViewSet.delete
FavoriteRecipeDelete(u, r) ==
    LET row == [user |-> u, favorite_recipe |-> r]
        del == GetAndDelete(favorite_recipe, row) IN
    /\ IF ~Exists(favorite_recipe, row)
       THEN /\ response' = Response("favorite_delete", u, r, "400", "errors",
                                    "ERROR_FAVORITE_RECIPE", NoBody)
            /\ UNCHANGED favorite_recipe
       ELSE /\ favorite_recipe' = del.table
            /\ response' = Response("favorite_delete", u, r, del.status,
                                    IF del.status = "204" THEN "" ELSE "detail",
                                    del.detail, NoBody)
    /\ UNCHANGED <<recipe, recipe_tags, ingredient_amount, cart, subscribe,
                   inflight, request>>

\* ----------------------------------------------------------------- Cart
\* CartSerializer.validate
CartSerializer_validate(u, r) ==
    IF Exists(cart, [user |-> u, recipe |-> r])
    THEN [ok |-> FALSE, key |-> "errors", detail |-> "RECIPE_ALREADY_IN_SHOPLIST"]
    ELSE [ok |-> TRUE, key |-> "", detail |-> ""]

\* Cart without its UniqueConstraint
unique_recipe_in_shopping_cart_dropped(row) == TRUE

\* UniqueConstraint "unique recipe in shopping cart"
unique_recipe_in_shopping_cart(row) == ~Exists(cart, row)

\* CartViewSet.perform_create
Cart_perform_create(u, r) ==
    LET row == [user |-> u, recipe |-> r] IN
    IF ~RecipeExists(r)
    THEN /\ response' = Response("cart_create", u, r, "404", "detail", "Http404", NoBody)
         /\ UNCHANGED cart
    ELSE IF ~unique_recipe_in_shopping_cart(row)
    THEN /\ response' = Response("cart_create", u, r, "500", "", "IntegrityError", NoBody)
         /\ UNCHANGED cart
    ELSE /\ cart' = cart (+) Row(row)
         /\ response' = Response("cart_create", u, r, "201", "", "", NoBody)

\* POST recipes/<recipe_id>/shopping_cart/ as one step
CartCreate(u, r) ==
    /\ IF ~CartSerializer_validate(u, r).ok
       THEN /\ response' = Response("cart_create", u, r, "400",
                                    CartSerializer_validate(u, r).key,
                                    CartSerializer_validate(u, r).detail, NoBody)
            /\ UNCHANGED cart
       ELSE Cart_perform_create(u, r)
    /\ UNCHANGED <<recipe, recipe_tags, ingredient_amount, favorite_recipe,
                   subscribe, inflight, request>>

\* The reverse accessors recipes/models.py gives a User (the related_name
\* of each ForeignKey to User).
UserRelatedNames == {"recipe", "favorite", "follower", "following", "cart"}

\* CartViewSet.delete: reads request.user.shopping_cart before anything else
CartDelete(u, r) ==
    LET row == [user |-> u, recipe |-> r]
        del == GetAndDelete(cart, row) IN
    /\ IF "shopping_cart" \notin UserRelatedNames
       THEN /\ response' = Response("cart_delete", u, r, "500", "", "AttributeError", NoBody)
            /\ UNCHANGED cart
       ELSE IF ~Exists(cart, row)
       THEN /\ response' = Response("cart_delete", u, r, "400", "errors",
                                    "ERROR_RECIPE_DOESNT_CART", NoBody)
            /\ UNCHANGED cart
       ELSE /\ cart' = del.table
            /\ response' = Response("cart_delete", u, r, del.status,
                                    IF del.status = "204" THEN "" ELSE "detail",
                                    del.detail, NoBody)
    /\ UNCHANGED <<recipe, recipe_tags, ingredient_amount, favorite_recipe,
                   subscribe, inflight, request>>

\* ------------------------------------------------------------ Subscribe
\* Subscribe.objects.filter(user_id=request.user).values_list('author_id')
Subscriptions(u) == {a \in Users : Exists(subscribe, [user |-> u, author |-> a])}

\* SubscribeViewSet.get_serializer_context.  The class body defines the
\* method twice; the second definition, without author_id, is the method.
SubscribeViewSet_get_serializer_context(u, user_id) ==
    [request |-> [user |-> u], subscriptions |-> Subscriptions(u)]

\* SubscribeSerializer.validate: context.get('author_id') is None for a
\* context without the key, and int(None) raises TypeError.
SubscribeSerializer_validate(context) ==
    LET u == context.request.user IN
    IF "author_id" \notin DOMAIN context
    THEN [ok |-> FALSE, status |-> "500", key |-> "", detail |-> "TypeError"]
    ELSE IF u = context.author_id
    THEN [ok |-> FALSE, status |-> "400", key |-> "errors", detail |-> "ERROR_FOLLOW_YOUSELF"]
    ELSE IF Exists(subscribe, [user |-> u, author |-> context.author_id])
    THEN [ok |-> FALSE, status |-> "400", key |-> "errors", detail |-> "ERROR_ALREADY_FOLLOW"]
    ELSE [ok |-> TRUE, status |-> "", key |-> "", detail |-> ""]

\* UniqueConstraint unique_subscription
unique_subscription(row) == ~Exists(subscribe, row)

\* SubscribeViewSet.perform_create
Subscribe_perform_create(u, a) ==
    LET row == [user |-> u, author |-> a] IN
    IF a \notin Users
    THEN /\ response' = Response("subscribe_create", u, a, "404", "detail", "Http404", NoBody)
         /\ UNCHANGED subscribe
    ELSE IF ~unique_subscription(row)
    THEN /\ response' = Response("subscribe_create", u, a, "500", "", "IntegrityError", NoBody)
         /\ UNCHANGED subscribe
    ELSE /\ subscribe' = subscribe (+) Row(row)
         /\ response' = Response("subscribe_create", u, a, "201", "", "", NoBody)

\* POST users/<user_id>/subscribe/
SubscribeCreate(u, a) ==
    LET v == SubscribeSerializer_validate(SubscribeViewSet_get_serializer_context(u, a)) IN
    /\ IF ~v.ok
       THEN /\ response' = Response("subscribe_create", u, a, v.status, v.key, v.detail, NoBody)
            /\ UNCHANGED subscribe
       ELSE Subscribe_perform_create(u, a)
    /\ UNCHANGED <<recipe, recipe_tags, ingredient_amount, favorite_recipe,
                   cart, inflight, request>>

\* SubscribeViewSet.delete
SubscribeDelete(u, a) ==
    LET row == [user |-> u, author |-> a]
        del == GetAndDelete(subscribe, row) IN
    /\ IF a \notin Users
       THEN /\ response' = Response("subscribe_delete", u, a, "404", "detail", "Http404", NoBody)
            /\ UNCHANGED subscribe
       ELSE IF ~Exists(subscribe, row)
       THEN /\ response' = Response("subscribe_delete", u, a, "400", "errors",
                                    "ERROR_FOLLOW_AUTHOR", NoBody)
            /\ UNCHANGED subscribe
       ELSE /\ subscribe' = del.table
            /\ response' = Response("subscribe_delete", u, a, del.status,
                                    IF del.status = "204" THEN "" ELSE "detail",
                                    del.detail, NoBody)
    /\ UNCHANGED <<recipe, recipe_tags, ingredient_amount, favorite_recipe,
                   cart, inflight, request>>

\* --------------------------------------------------- RecipeEditSerializer
\* data.get(key) of a payload: a function from the keys sent to their values
Has(data, key) == key \in DOMAIN data

RecipeKeys == {"name", "ingredients", "tags", "cooking_time"}

Ids(ingredients) == {ingredients[i].id : i \in DOMAIN ingredients}

Range(seq) == {seq[i] : i \in DOMAIN seq}

\* Field validation before validate(): a field a full (not partial) request
\* omits is "required"; a tag id must name a Tag (does_not_exist, the
\* message of extra_kwargs); cooking_time carries the model field's
\* MinValueValidator(1).
FieldErrors(data, partial) ==
    {Error(k, "required") : k \in {k \in RecipeKeys : ~partial /\ ~Has(data, k)}}
    \cup (IF Has(data, "tags") /\ Range(data.tags) \ TagIds # {}
          THEN {Error("tags", "ERROR_TAG")} ELSE {})
    \cup (IF Has(data, "cooking_time") /\ data.cooking_time < MinCookingTime
          THEN {Error("cooking_time", "min_value")} ELSE {})

Valid == [ok |-> TRUE, status |-> "", errors |-> {}]

Invalid(key, detail) == [ok |-> FALSE, status |-> "400", errors |-> {Error(key, detail)}]

Raised(exception) == [ok |-> FALSE, status |-> "500", errors |-> {Error("", exception)}]

\* RecipeEditSerializer.validate with the name check off by one
\* (len(name) <= 4)
RecipeEditSerializer_validate_off_by_one(data) ==
    IF ~Has(data, "name") THEN Raised("TypeError")
    ELSE IF Len(data.name) <= MinNameLen THEN Invalid("name", "MIN_LEN_NAME_RECIPE")
    ELSE IF ~Has(data, "ingredients") THEN Raised("TypeError")
    ELSE IF \E i \in DOMAIN data.ingredients : ~IngredientExists(data.ingredients[i].id)
    THEN Invalid("ingredients", "ERROR_INGREDIENT_ID")
    ELSE IF Len(data.ingredients) # Cardinality(Ids(data.ingredients))
    THEN Invalid("non_field_errors", "ERROR_INGREDIENTS_REPEAT")
    ELSE IF ~Has(data, "tags") THEN Raised("TypeError")
    ELSE IF Len(data.tags) # Cardinality(Range(data.tags))
    THEN Invalid("tags", "ERROR_TAG_REPEAT")
    ELSE IF \E i \in DOMAIN data.ingredients : data.ingredients[i].amount < MinAmount
    THEN Invalid("amount", "MIN_AMOUNT_OF_INGREDIENT")
    ELSE IF ~Has(data, "cooking_time") THEN Raised("TypeError")
    ELSE IF data.cooking_time > MaxCookingTime \/ data.cooking_time < MinCookingTime
    THEN Invalid("cooking_time", "INTERVAL_OF_COOKING")
    ELSE Valid

\* RecipeEditSerializer.validate, check by check in the order of the code.
\* data.get of a key that was not sent is None: len(None), iterating None
\* and None > 300 raise TypeError.
RecipeEditSerializer_validate(data) ==
    IF ~Has(data, "name") THEN Raised("TypeError")
    ELSE IF Len(data.name) < MinNameLen THEN Invalid("name", "MIN_LEN_NAME_RECIPE")
    ELSE IF ~Has(data, "ingredients") THEN Raised("TypeError")
    ELSE IF \E i \in DOMAIN data.ingredients : ~IngredientExists(data.ingredients[i].id)
    THEN Invalid("ingredients", "ERROR_INGREDIENT_ID")
    ELSE IF Len(data.ingredients) # Cardinality(Ids(data.ingredients))
    THEN Invalid("non_field_errors", "ERROR_INGREDIENTS_REPEAT")
    ELSE IF ~Has(data, "tags") THEN Raised("TypeError")
    ELSE IF Len(data.tags) # Cardinality(Range(data.tags))
    THEN Invalid("tags", "ERROR_TAG_REPEAT")
    ELSE IF \E i \in DOMAIN data.ingredients : data.ingredients[i].amount < MinAmount
    THEN Invalid("amount", "MIN_AMOUNT_OF_INGREDIENT")
    ELSE IF ~Has(data, "cooking_time") THEN Raised("TypeError")
    ELSE IF data.cooking_time > MaxCookingTime \/ data.cooking_time < MinCookingTime
    THEN Invalid("cooking_time", "INTERVAL_OF_COOKING")
    ELSE Valid

\* is_valid that stops after the fields and never calls validate()
is_valid_fields_only(data, partial) ==
    IF FieldErrors(data, partial) # {}
    THEN [ok |-> FALSE, status |-> "400", errors |-> FieldErrors(data, partial)]
    ELSE Valid

\* serializer.is_valid(raise_exception=True): the fields, then validate()
is_valid(data, partial) ==
    IF FieldErrors(data, partial) # {}
    THEN [ok |-> FALSE, status |-> "400", errors |-> FieldErrors(data, partial)]
    ELSE RecipeEditSerializer_validate(data)

\* UniqueConstraint unique_ingredient on (recipe, ingredient), and the
\* foreign key to Ingredient: TRUE when the database takes the row
unique_ingredient(table, row) ==
    /\ IngredientExists(row.ingredient)
    /\ ~\E x \in BagToSet(table) :
           x.recipe = row.recipe /\ x.ingredient = row.ingredient

\* RecipeEditSerializer.create_ingredients: one INSERT per element of the
\* list.  settings.py sets no ATOMIC_REQUESTS and no handler opens a
\* transaction, so every INSERT commits on its own and an IntegrityError
\* leaves the rows inserted before it.
RECURSIVE create_ingredients(_, _, _)
create_ingredients(table, ingredients, r) ==
    IF ingredients = <<>> THEN [ok |-> TRUE, table |-> table]
    ELSE LET row == [recipe |-> r, ingredient |-> Head(ingredients).id,
                     amount |-> Head(ingredients).amount] IN
         IF ~unique_ingredient(table, row) THEN [ok |-> FALSE, table |-> table]
         ELSE create_ingredients(table (+) Row(row), Tail(ingredients), r)

\* clear() that deletes nothing
clear_nothing(table, r) == table

\* instance.ingredients.clear(): DELETE the IngredientAmount rows of r
clear(table, r) ==
    [x \in {y \in BagToSet(table) : y.recipe # r} |-> table[x]]

\* instance.tags.set(tags)
tags_set(table, r, tags) ==
    {x \in table : x.recipe # r} \cup {[recipe |-> r, tag |-> t] : t \in Range(tags)}

\* ----------------------------------------------------- RecipeReadSerializer
Value(v) == [ok |-> TRUE, value |-> v, error |-> ""]

KeyError == [ok |-> FALSE, value |-> FALSE, error |-> "KeyError"]

\* UserListSerializer.get_is_subscribed (the nested author field shares
\* the context of its parent)
get_is_subscribed(context, id) ==
    IF ~Has(context, "subscriptions") THEN KeyError
    ELSE Value(id \in context.subscriptions)

\* RecipeReadSerializer.get_is_favorited
get_is_favorited(context, id) ==
    IF ~is_authenticated(context.request.user) THEN Value(FALSE)
    ELSE IF ~Has(context, "favorited") THEN KeyError
    ELSE Value(id \in context.favorited)

\* RecipeReadSerializer.get_is_in_shopping_cart
get_is_in_shopping_cart(context, id) ==
    IF ~is_authenticated(context.request.user) THEN Value(FALSE)
    ELSE IF ~Has(context, "in_shopping_cart") THEN KeyError
    ELSE Value(id \in context.in_shopping_cart)

\* RecipeReadSerializer(...).data: the fields in the order of Meta.fields
\* (author before is_favorited before is_in_shopping_cart)
RecipeReadSerializer_data(context, x) ==
    LET s == get_is_subscribed(context, x.author)
        f == get_is_favorited(context, x.id)
        c == get_is_in_shopping_cart(context, x.id) IN
    IF ~s.ok THEN [ok |-> FALSE, error |-> s.error, body |-> NoBody]
    ELSE IF ~f.ok THEN [ok |-> FALSE, error |-> f.error, body |-> NoBody]
    ELSE IF ~c.ok THEN [ok |-> FALSE, error |-> c.error, body |-> NoBody]
    ELSE [ok |-> TRUE, error |-> "",
          body |-> <<[id |-> x.id, is_subscribed |-> s.value,
                      is_favorited |-> f.value,
                      is_in_shopping_cart |-> c.value]>>]

\* RecipeEditSerializer.to_representation: a context with the request alone
RecipeEditSerializer_to_representation(u, x) ==
    RecipeReadSerializer_data([request |-> [user |-> u]], x)

\* The names a Cart query resolves: the model's fields and their attnames
CartFieldNames == {"id", "user", "user_id", "recipe", "recipe_id"}

\* RecipeViewSet.get_serializer_context.  filter(user_id=request.user) of
\* an AnonymousUser raises TypeError (no int() of it); values_list of a
\* name that is no field of Cart raises FieldError.
RecipeViewSet_get_serializer_context(u) ==
    IF ~is_authenticated(u) THEN [ok |-> FALSE, error |-> "TypeError"]
    ELSE IF "recipe_cart" \notin CartFieldNames THEN [ok |-> FALSE, error |-> "FieldError"]
    ELSE [ok |-> TRUE, error |-> "",
          context |-> [request |-> [user |-> u],
                       favorited |-> {r \in RecipeIds :
                           Exists(favorite_recipe, [user |-> u, favorite_recipe |-> r])},
                       in_shopping_cart |-> {r \in RecipeIds :
                           Exists(cart, [user |-> u, recipe |-> r])}]]

RecipeOf(r) == CHOOSE x \in recipe : x.id = r

\* RecipeViewSet.retrieve: get_object, get_serializer (which builds the
\* context), serializer.data
RecipeRetrieve(u, r) ==
    LET c == RecipeViewSet_get_serializer_context(u)
        d == RecipeReadSerializer_data(c.context, RecipeOf(r)) IN
    /\ response' =
          IF ~RecipeExists(r)
          THEN Response("recipe_retrieve", u, r, "404", "detail", "Http404", NoBody)
          ELSE IF ~c.ok
          THEN Response("recipe_retrieve", u, r, "500", "", c.error, NoBody)
          ELSE IF ~d.ok
          THEN Response("recipe_retrieve", u, r, "500", "", d.error, NoBody)
          ELSE Response("recipe_retrieve", u, r, "200", "", "", d.body)
    /\ UNCHANGED <<store, inflight, request>>

\* ---------------------------------------------------- CustomUserViewSet
\* CustomUserViewSet.get_serializer_context: filter(user_id=request.user)
\* of an AnonymousUser raises TypeError
CustomUserViewSet_get_serializer_context(u) ==
    IF ~is_authenticated(u) THEN [ok |-> FALSE, error |-> "TypeError"]
    ELSE [ok |-> TRUE, error |-> "",
          context |-> [request |-> [user |-> u], subscriptions |-> Subscriptions(u)]]

\* UserListSerializer(queryset, many=True).data: User.objects.all(), here
\* by id; the first field that raises ends the request
UserListSerializer_data(context) ==
    LET entry(i) == [id |-> i, is_subscribed |-> get_is_subscribed(context, i).value] IN
    IF \E i \in Users : ~get_is_subscribed(context, i).ok
    THEN [ok |-> FALSE, error |-> "KeyError", body |-> NoBody]
    ELSE [ok |-> TRUE, error |-> "", body |-> [i \in 1..NumUsers |-> entry(i)]]

\* GET users/ (IsAuthenticatedOrReadOnly lets an anonymous client read)
UserList(u) ==
    LET c == CustomUserViewSet_get_serializer_context(u)
        d == UserListSerializer_data(c.context) IN
    /\ response' =
          IF ~c.ok THEN Response("user_list", u, 0, "500", "", c.error, NoBody)
          ELSE IF ~d.ok THEN Response("user_list", u, 0, "500", "", d.error, NoBody)
          ELSE Response("user_list", u, 0, "200", "", "", d.body)
    /\ UNCHANGED <<store, inflight, request>>

\* The primary key of a Subscribe row: the rows of Init numbered by pair
SubscribePk(row) == (row.user - 1) * NumUsers + row.author

\* Subscribe.objects.filter(user=request.user), Meta.ordering = ('-id',)
Subscribe_filter(u) ==
    LET rows == {row \in BagToSet(subscribe) : row.user = u} IN
    CHOOSE q \in [1..Cardinality(rows) -> rows] :
        \A i, j \in DOMAIN q : i < j => SubscribePk(q[i]) > SubscribePk(q[j])

\* SubscribeSerializer.get_is_subscribed: obj is a Subscribe row, obj.id its
\* primary key
SubscribeSerializer_get_is_subscribed(context, obj) ==
    IF ~Has(context, "subscriptions") THEN KeyError
    ELSE Value(SubscribePk(obj) \in context.subscriptions)

\* SubscribeSerializer(pages, many=True).data: id is author.id
SubscribeSerializer_data(context, rows) ==
    LET entry(i) ==
           [id |-> rows[i].author,
            is_subscribed |-> SubscribeSerializer_get_is_subscribed(context, rows[i]).value] IN
    IF \E i \in DOMAIN rows : ~SubscribeSerializer_get_is_subscribed(context, rows[i]).ok
    THEN [ok |-> FALSE, error |-> "KeyError", body |-> NoBody]
    ELSE [ok |-> TRUE, error |-> "", body |-> [i \in DOMAIN rows |-> entry(i)]]

\* CustomUserViewSet.subscriptions (IsAuthenticated): the serializer gets
\* context={'request': request}
SubscriptionsList(u) ==
    LET d == SubscribeSerializer_data([request |-> [user |-> u]], Subscribe_filter(u)) IN
    /\ response' =
          IF ~d.ok THEN Response("subscriptions", u, 0, "500", "", d.error, NoBody)
          ELSE Response("subscriptions", u, 0, "200", "", "", d.body)
    /\ UNCHANGED <<store, inflight, request>>

\* RecipeEditSerializer: is_valid, save (create) and data, as
\* CreateModelMixin.create calls them, with author = request.user
RecipeCreate(u, data) ==
    LET v == is_valid(data, FALSE)
        id == Cardinality(recipe) + 1
        x == [id |-> id, author |-> u, name |-> data.name,
              cooking_time |-> data.cooking_time]
        ins == create_ingredients(ingredient_amount, data.ingredients, id)
        rep == RecipeEditSerializer_to_representation(u, x) IN
    /\ Cardinality(recipe) < MaxRecipes
    /\ IF ~v.ok
       THEN /\ response' = ResponseWith("recipe_create", u, 0, v.status, v.errors, NoBody)
            /\ UNCHANGED <<recipe, recipe_tags, ingredient_amount>>
       ELSE /\ recipe' = recipe \cup {x}
            /\ recipe_tags' = tags_set(recipe_tags, id, data.tags)
            /\ ingredient_amount' = ins.table
            /\ response' =
                  IF ~ins.ok
                  THEN Response("recipe_create", u, id, "500", "", "IntegrityError", NoBody)
                  ELSE IF ~rep.ok
                  THEN Response("recipe_create", u, id, "500", "", rep.error, NoBody)
                  ELSE Response("recipe_create", u, id, "201", "", "", rep.body)
    /\ UNCHANGED <<favorite_recipe, cart, subscribe, inflight, request>>

\* super().update(instance, validated_data): the fields left in the data
update_fields(x, data) ==
    [id |-> x.id, author |-> x.author,
     name |-> IF Has(data, "name") THEN data.name ELSE x.name,
     cooking_time |-> IF Has(data, "cooking_time") THEN data.cooking_time
                      ELSE x.cooking_time]

\* RecipeEditSerializer: is_valid, save (update) and data, as
\* UpdateModelMixin.update calls them for PUT (partial = FALSE) and PATCH;
\* the requester is the author (permission IsAuthorOrReadOnly).
RecipeUpdate(r, data, partial) ==
    LET x == RecipeOf(r)
        v == is_valid(data, partial)
        ins == IF Has(data, "ingredients")
               THEN create_ingredients(clear(ingredient_amount, r), data.ingredients, r)
               ELSE [ok |-> TRUE, table |-> ingredient_amount]
        rep == RecipeEditSerializer_to_representation(x.author, update_fields(x, data)) IN
    /\ RecipeExists(r)
    /\ IF ~v.ok
       THEN /\ response' = ResponseWith("recipe_update", x.author, r, v.status, v.errors, NoBody)
            /\ UNCHANGED <<recipe, recipe_tags, ingredient_amount>>
       ELSE IF ~ins.ok
       THEN /\ ingredient_amount' = ins.table
            /\ response' = Response("recipe_update", x.author, r, "500", "",
                                    "IntegrityError", NoBody)
            /\ UNCHANGED <<recipe, recipe_tags>>
       ELSE /\ ingredient_amount' = ins.table
            /\ recipe_tags' = IF Has(data, "tags") THEN tags_set(recipe_tags, r, data.tags)
                              ELSE recipe_tags
            /\ recipe' = (recipe \ {x}) \cup {update_fields(x, data)}
            /\ response' =
                  IF ~rep.ok
                  THEN Response("recipe_update", x.author, r, "500", "", rep.error, NoBody)
                  ELSE Response("recipe_update", x.author, r, "200", "", "", rep.body)
    /\ UNCHANGED <<favorite_recipe, cart, subscribe, inflight, request>>

\* --------------------------------------------------------- download_file
\* the cart rows of every user
CartRows_of_anyone(u) == BagToSet(cart)

\* user.cart: the Cart rows of the user
CartRows(u) == {c \in BagToSet(cart) : c.user = u}

AmountRows(r) == {x \in BagToSet(ingredient_amount) : x.recipe = r}

\* user.cart ... values(name, unit): Cart JOIN Recipe LEFT OUTER JOIN
\* IngredientAmount LEFT OUTER JOIN Ingredient.  A cart row whose recipe has
\* IngredientAmount rows gives one joined row per such row ...
JoinedRows(u) ==
    UNION {{[c |-> c, x |-> x, copies |-> cart[c] * ingredient_amount[x]] :
              x \in AmountRows(c.recipe)} : c \in CartRows(u)}

\* ... and one whose recipe has none gives one row of NULLs.
NullRows(u) == {c \in CartRows(u) : AmountRows(c.recipe) = {}}

KeyOf(j) == [name |-> Some(Ingredient(j.x.ingredient).name),
             unit |-> Some(Ingredient(j.x.ingredient).measurement_unit)]

\* GROUP BY name, measurement_unit (NULLs are one group)
Groups(u) ==
    {KeyOf(j) : j \in JoinedRows(u)}
    \cup (IF NullRows(u) = {} THEN {} ELSE {[name |-> Null, unit |-> Null]})

RECURSIVE SumAmount(_)
SumAmount(rows) ==
    IF rows = {} THEN 0
    ELSE LET j == CHOOSE j \in rows : TRUE IN
         j.x.amount * j.copies + SumAmount(rows \ {j})

\* annotate(Sum(amount)): SUM over a group of NULLs is NULL
Lines(u) ==
    {[name |-> k.name, unit |-> k.unit,
      amount |-> IF k.name = Null THEN Null
                 ELSE Some(SumAmount({j \in JoinedRows(u) : KeyOf(j) = k}))] :
       k \in Groups(u)}

\* order_by(name) ascending; PostgreSQL (settings.DATABASES) puts NULLs last
NameLE(a, b) == b = Null \/ (a # Null /\ a[1] <= b[1])

\* The result sets order_by(name) allows: rows of one name come in any order
Orderings(u) ==
    {s \in [1..Cardinality(Lines(u)) -> Lines(u)] :
        /\ Range(s) = Lines(u)
        /\ \A i, j \in DOMAIN s : i < j => NameLE(s[i].name, s[j].name)}

\* download_file
DownloadFile(u) ==
    /\ IF CartRows(u) = {}
       THEN response' = Response("download_file", u, 0, "400", "", "EMPTY_CART", NoBody)
       ELSE \E body \in Orderings(u) :
               response' = Response("download_file", u, 0, "200", "", "", body)
    /\ UNCHANGED <<store, inflight, request>>

\* ------------------------------------------------------------- payloads
NameOfLen(n) == [i \in 1..n |-> "a"]

Lists(items) == UNION {[1..n -> items] : n \in 0..MaxListLen}

\* one (id, amount) element of "ingredients": an Ingredient in the table
ValidItems == [id : IngredientIds, amount : MinAmount..MaxAmount]

\* ... or any element, with an id past the table and an amount below 1
Items == [id : 1..(NumIngredients + 1), amount : (MinAmount - 1)..MaxAmount]

Base == [name |-> NameOfLen(MinNameLen),
         ingredients |-> <<[id |-> 1, amount |-> MinAmount]>>,
         tags |-> <<1>>,
         cooking_time |-> MinCookingTime]

Without(data, key) == [k \in (DOMAIN data) \ {key} |-> data[k]]

\* lists of existing ingredients without a repeated id, by ascending id
\* (the order of the INSERTs does not show in the table)
IngredientLists ==
    {l \in Lists(ValidItems) : \A i, j \in DOMAIN l : i < j => l[i].id < l[j].id}

\* the payloads of the recipe requests: every such list in a valid recipe,
\* and a valid recipe with one field made invalid
RecipeData ==
    {[Base EXCEPT !.ingredients = l] : l \in IngredientLists}
    \cup {[Base EXCEPT !.name = NameOfLen(MinNameLen - 1)],
          [Base EXCEPT !.cooking_time = MaxCookingTime + 1],
          [Base EXCEPT !.cooking_time = MinCookingTime - 1],
          [Base EXCEPT !.tags = <<1, 1>>],
          [Base EXCEPT !.tags = <<NumTags + 1>>],
          [Base EXCEPT !.ingredients = <<[id |-> NumIngredients + 1, amount |-> MinAmount]>>],
          [Base EXCEPT !.ingredients = <<[id |-> 1, amount |-> MinAmount - 1]>>],
          [Base EXCEPT !.ingredients = <<[id |-> 1, amount |-> MinAmount],
                                         [id |-> 1, amount |-> MaxAmount]>>]}

\* a PATCH may leave fields out
PartialData == {Base} \cup {Without(Base, k) : k \in RecipeKeys}

\* every payload of the bounded domain, for validation on its own
AllData ==
    LET full == [name : {NameOfLen(n) : n \in (MinNameLen - 1)..(MinNameLen + 1)},
                 ingredients : Lists(Items),
                 tags : UNION {[1..n -> 1..(NumTags + 1)] : n \in 0..MaxListLen},
                 cooking_time : {-1, 0, MinCookingTime, MaxCookingTime, MaxCookingTime + 1}]
    IN full \cup {Without(Base, k) : k \in RecipeKeys}

\* ----------------------------------------------------------------- Init
NonSelfPairs == {row \in [user : Users, author : Users] : row.user # row.author}

\* An empty store.  No handler creates a User, a Tag or an Ingredient: they
\* are seed data (Users, TagIds, Ingredient).
InitEmpty ==
    /\ recipe = {}
    /\ recipe_tags = {}
    /\ ingredient_amount = EmptyBag
    /\ favorite_recipe = EmptyBag
    /\ cart = EmptyBag
    /\ subscribe = EmptyBag
    /\ inflight = EmptyBag
    /\ request = NoRequest
    /\ response = NoResponse

\* The store of the relationship handlers.  SubscribeViewSet cannot insert
\* a Subscribe row (validate raises first), so the rows there are come from
\* outside the handlers (the admin site): Init draws them from what the
\* constraint unique_subscription and a sane admin allow.
Init ==
    /\ recipe = {}
    /\ recipe_tags = {}
    /\ ingredient_amount = EmptyBag
    /\ favorite_recipe = EmptyBag
    /\ cart = EmptyBag
    /\ subscribe \in {SetToBag(S) : S \in SUBSET NonSelfPairs}
    /\ inflight = EmptyBag
    /\ request = NoRequest
    /\ response = NoResponse

\* ----------------------------------------------------------------- Next
\* The relationship guards and the recipe responses, each request one step
Next ==
    \/ \E u \in Users : RecipeCreate(u, Base)
    \/ \E r \in RecipeIds : RecipeUpdate(r, Base, FALSE)
    \/ \E u \in Users \cup {AnonymousUser}, r \in RecipeIds : RecipeRetrieve(u, r)
    \/ \E u \in Users, r \in RecipeIds : FavoriteRecipeCreate(u, r)
    \/ \E u \in Users, r \in RecipeIds : FavoriteRecipeDelete(u, r)
    \/ \E u \in Users, r \in RecipeIds : CartCreate(u, r)
    \/ \E u \in Users, r \in RecipeIds : CartDelete(u, r)
    \/ \E u \in Users, a \in 1..(NumUsers + 1) : SubscribeCreate(u, a)
    \/ \E u \in Users, a \in 1..(NumUsers + 1) : SubscribeDelete(u, a)
    \/ \E u \in Users \cup {AnonymousUser} : UserList(u)
    \/ \E u \in Users : SubscriptionsList(u)

Spec == Init /\ [][Next]_vars

\* Recipe mutations, the cart and the shopping list, each request one step.
\* The recipes here are one user's: the author of a recipe plays no part in
\* its ingredient rows or in a shopping list (Spec has recipes of every
\* author).
NextRecipe ==
    \/ \E data \in RecipeData : RecipeCreate(1, data)
    \/ \E r \in RecipeIds, data \in RecipeData : RecipeUpdate(r, data, FALSE)
    \/ \E r \in RecipeIds, data \in PartialData : RecipeUpdate(r, data, TRUE)
    \/ \E u \in Users, r \in RecipeIds : CartCreate(u, r)
    \/ \E u \in Users : DownloadFile(u)

SpecRecipe == InitEmpty /\ [][NextRecipe]_vars

\* Recipe creations and updates (PUT and PATCH) alone
NextUpdate ==
    \/ \E data \in RecipeData : RecipeCreate(1, data)
    \/ \E r \in RecipeIds, data \in RecipeData : RecipeUpdate(r, data, FALSE)
    \/ \E r \in RecipeIds, data \in PartialData : RecipeUpdate(r, data, TRUE)

SpecUpdate == InitEmpty /\ [][NextUpdate]_vars

\* Validation on its own: Init draws a payload, Validate runs is_valid on it
InitValidate ==
    /\ recipe = {}
    /\ recipe_tags = {}
    /\ ingredient_amount = EmptyBag
    /\ favorite_recipe = EmptyBag
    /\ cart = EmptyBag
    /\ subscribe = EmptyBag
    /\ inflight = EmptyBag
    /\ request \in [partial : BOOLEAN, data : AllData]
    /\ response = NoResponse

Validate ==
    LET v == is_valid(request.data, request.partial) IN
    /\ response = NoResponse
    /\ response' = ResponseWith("is_valid", AnonymousUser, 0,
                                IF v.ok THEN "valid" ELSE v.status, v.errors, NoBody)
    /\ UNCHANGED <<store, inflight, request>>

SpecValidate == InitValidate /\ [][Validate]_vars

\* ------------------------------------------------ interleaved requests
\* A request of the relationship handlers that has run is_valid and not yet
\* perform_create: another request's statements may come in between.
Pending(op, u, r) == [op |-> op, user |-> u, target |-> r]

\* POST recipes/<recipe_id>/favorite/, first half: serializer.is_valid
FavoriteRecipeValidate(u, r) ==
    /\ BagCardinality(inflight) < MaxInflight
    /\ IF ~FavoriteRecipeSerializer_validate(u, r).ok
       THEN /\ response' = Response("favorite_create", u, r, "400",
                                    FavoriteRecipeSerializer_validate(u, r).key,
                                    FavoriteRecipeSerializer_validate(u, r).detail, NoBody)
            /\ UNCHANGED inflight
       ELSE /\ inflight' = inflight (+) Row(Pending("favorite_create", u, r))
            /\ UNCHANGED response
    /\ UNCHANGED <<store, request>>

\* second half: perform_create
FavoriteRecipeSave(q) ==
    /\ q.op = "favorite_create"
    /\ FavoriteRecipe_perform_create(q.user, q.target)
    /\ inflight' = inflight (-) Row(q)
    /\ UNCHANGED <<recipe, recipe_tags, ingredient_amount, cart, subscribe, request>>

\* POST recipes/<recipe_id>/shopping_cart/, first half: serializer.is_valid
CartValidate(u, r) ==
    /\ BagCardinality(inflight) < MaxInflight
    /\ IF ~CartSerializer_validate(u, r).ok
       THEN /\ response' = Response("cart_create", u, r, "400",
                                    CartSerializer_validate(u, r).key,
                                    CartSerializer_validate(u, r).detail, NoBody)
            /\ UNCHANGED inflight
       ELSE /\ inflight' = inflight (+) Row(Pending("cart_create", u, r))
            /\ UNCHANGED response
    /\ UNCHANGED <<store, request>>

\* second half: perform_create
CartSave(q) ==
    /\ q.op = "cart_create"
    /\ Cart_perform_create(q.user, q.target)
    /\ inflight' = inflight (-) Row(q)
    /\ UNCHANGED <<recipe, recipe_tags, ingredient_amount, favorite_recipe,
                   subscribe, request>>

\* The relationship handlers with the two halves of a creation interleaved
\* with the other requests, from the store of Init (Subscribe rows seeded)
NextRace ==
    \/ RecipeCreate(1, Base)
    \/ \E u \in Users, r \in RecipeIds : FavoriteRecipeValidate(u, r)
    \/ \E q \in BagToSet(inflight) : FavoriteRecipeSave(q)
    \/ \E u \in Users, r \in RecipeIds : FavoriteRecipeDelete(u, r)
    \/ \E u \in Users, r \in RecipeIds : CartValidate(u, r)
    \/ \E q \in BagToSet(inflight) : CartSave(q)
    \/ \E u \in Users, r \in RecipeIds : CartDelete(u, r)
    \/ \E u \in Users, a \in Users : SubscribeCreate(u, a)
    \/ \E u \in Users, a \in Users : SubscribeDelete(u, a)

SpecRace == Init /\ [][NextRace]_vars

\* ------------------------------------------ recipe updates, by statement
\* serializers.py opens no transaction and settings.DATABASES sets no
\* ATOMIC_REQUESTS: each statement of update() commits when it runs, and
\* the statements of two requests interleave.  An update in flight carries
\* pc, the element of "ingredients" its loop is at, and written, the number
\* of rows it has deleted or inserted so far (all committed).
Updating(x, data, pc, written) ==
    [op |-> "recipe_update", user |-> x.author, target |-> x.id,
     data |-> data, pc |-> pc, written |-> written]

\* two payloads that differ in every stored field, and the lists of
\* existing ingredients of the least amount, in both orders
OtherData == [name |-> NameOfLen(MinNameLen + 1),
              ingredients |-> <<[id |-> NumIngredients, amount |-> MaxAmount],
                                [id |-> 1, amount |-> MaxAmount]>>,
              tags |-> <<>>,
              cooking_time |-> MaxCookingTime]

AtomicData ==
    {OtherData}
    \cup {[Base EXCEPT !.ingredients = l] :
            l \in {l \in Lists([id : IngredientIds, amount : {MinAmount}]) :
                      \A i, j \in DOMAIN l : i # j => l[i].id # l[j].id}}

\* PUT recipes/<id>/: get_object, is_valid, and the first statement of
\* update(), instance.ingredients.clear()
RecipeUpdateBegin(r, data) ==
    LET x == RecipeOf(r)
        v == is_valid(data, FALSE) IN
    /\ RecipeExists(r)
    /\ BagCardinality(inflight) < MaxInflight
    /\ IF ~v.ok
       THEN /\ response' = ResponseWith("recipe_update", x.author, r, v.status,
                                        v.errors, NoBody)
            /\ UNCHANGED <<ingredient_amount, inflight>>
       ELSE /\ ingredient_amount' = clear(ingredient_amount, r)
            /\ inflight' = inflight (+) Row(Updating(x, data, 1,
                    BagCardinality(ingredient_amount)
                        - BagCardinality(clear(ingredient_amount, r))))
            /\ UNCHANGED response
    /\ UNCHANGED <<recipe, recipe_tags, favorite_recipe, cart, subscribe, request>>

\* create_ingredients, one turn of the loop: the INSERT of element pc.  An
\* IntegrityError ends the request; what it committed stays.
RecipeUpdateInsert(q) ==
    LET e == q.data.ingredients[q.pc]
        row == [recipe |-> q.target, ingredient |-> e.id, amount |-> e.amount] IN
    /\ q.op = "recipe_update"
    /\ q.pc <= Len(q.data.ingredients)
    /\ IF ~unique_ingredient(ingredient_amount, row)
       THEN /\ response' = Response("recipe_update", q.user, q.target, "500", "",
                                    "IntegrityError", NoBody)
            /\ inflight' = inflight (-) Row(q)
            /\ UNCHANGED ingredient_amount
       ELSE /\ ingredient_amount' = ingredient_amount (+) Row(row)
            /\ inflight' = (inflight (-) Row(q))
                              (+) Row([q EXCEPT !.pc = q.pc + 1,
                                                !.written = q.written + 1])
            /\ UNCHANGED response
    /\ UNCHANGED <<recipe, recipe_tags, favorite_recipe, cart, subscribe, request>>

\* instance.tags.set(tags)
RecipeUpdateTags(q) ==
    /\ q.op = "recipe_update"
    /\ q.pc = Len(q.data.ingredients) + 1
    /\ recipe_tags' = tags_set(recipe_tags, q.target, q.data.tags)
    /\ inflight' = (inflight (-) Row(q)) (+) Row([q EXCEPT !.pc = q.pc + 1])
    /\ UNCHANGED <<recipe, ingredient_amount, favorite_recipe, cart, subscribe,
                   request, response>>

\* super().update(instance, validated_data), then serializer.data
RecipeUpdateSave(q) ==
    LET x == RecipeOf(q.target)
        rep == RecipeEditSerializer_to_representation(q.user, update_fields(x, q.data)) IN
    /\ q.op = "recipe_update"
    /\ q.pc = Len(q.data.ingredients) + 2
    /\ recipe' = (recipe \ {x}) \cup {update_fields(x, q.data)}
    /\ inflight' = inflight (-) Row(q)
    /\ response' =
          IF ~rep.ok
          THEN Response("recipe_update", q.user, q.target, "500", "", rep.error, NoBody)
          ELSE Response("recipe_update", q.user, q.target, "200", "", "", rep.body)
    /\ UNCHANGED <<recipe_tags, ingredient_amount, favorite_recipe, cart,
                   subscribe, request>>

\* Recipe updates statement by statement.  A creation writes rows of a new
\* id, which no other request's statement touches: it stays one step.
NextAtomic ==
    \/ \E data \in AtomicData : RecipeCreate(1, data)
    \/ \E r \in RecipeIds, data \in AtomicData : RecipeUpdateBegin(r, data)
    \/ \E q \in BagToSet(inflight) : RecipeUpdateInsert(q)
    \/ \E q \in BagToSet(inflight) : RecipeUpdateTags(q)
    \/ \E q \in BagToSet(inflight) : RecipeUpdateSave(q)

SpecAtomic == InitEmpty /\ [][NextAtomic]_vars

\* ======================================================================
\* Claims
\* ======================================================================

\* The rows of a relationship table for one pair
FavoriteRow(u, r) == [user |-> u, favorite_recipe |-> r]

CartRow(u, r) == [user |-> u, recipe |-> r]

SubscribeRow(u, a) == [user |-> u, author |-> a]

IntegrityError == {Error("", "IntegrityError")}

\* C1: when two favorite creations for one (user, recipe) have both passed
\* the check in validate before either INSERT, at most one FavoriteRecipe
\* row of the pair is ever committed: the INSERT that finds the row there
\* ends in an error (IntegrityError, from the constraint) and adds no row.
C1_ConstraintDecides ==
    [][/\ \A u \in Users, r \in RecipeIds :
             CopiesIn(FavoriteRow(u, r), favorite_recipe') <= 1
       /\ \A q \in BagToSet(inflight) :
             (/\ q.op = "favorite_create"
              /\ inflight' = inflight (-) Row(q)
              /\ Exists(favorite_recipe, FavoriteRow(q.user, q.target)))
                 => /\ favorite_recipe' = favorite_recipe
                    /\ response'.op = "favorite_create"
                    /\ response'.status = "500"
                    /\ response'.errors = IntegrityError]_vars

\* C1 witness: a favorite creation that passed validate lost the race: it
\* ended in IntegrityError and the pair has its one row.
C1_Witness ==
    /\ response.op = "favorite_create"
    /\ response.errors = IntegrityError
    /\ CopiesIn(FavoriteRow(response.user, response.target), favorite_recipe) = 1

\* C2: in every reachable state there is at most one FavoriteRecipe row per
\* (user, recipe), at most one Cart row per (user, recipe) and at most one
\* Subscribe row per (follower, author).
C2_RowsUnique ==
    /\ \A u \in Users, r \in RecipeIds :
          /\ CopiesIn(FavoriteRow(u, r), favorite_recipe) <= 1
          /\ CopiesIn(CartRow(u, r), cart) <= 1
    /\ \A u \in Users, a \in Users : CopiesIn(SubscribeRow(u, a), subscribe) <= 1

\* C2 witness: rows in all three tables after a cart creation lost a race
\* against the creation of the same row.
C2_Witness ==
    /\ response.op = "cart_create"
    /\ response.errors = IntegrityError
    /\ CopiesIn(CartRow(response.user, response.target), cart) = 1
    /\ favorite_recipe # EmptyBag
    /\ subscribe # EmptyBag

\* C3: a recipe update whose step fails has committed none of its row
\* changes (here: the update that ends in IntegrityError has deleted and
\* inserted no row).
C3_MutationsAtomic ==
    [][\A q \in BagToSet(inflight) :
          (/\ q.op = "recipe_update"
           /\ inflight' = inflight (-) Row(q)
           /\ response'.op = "recipe_update"
           /\ response'.errors = IntegrityError)
              => q.written = 0]_vars

\* C4: a subscription creation whose follower is the target author is
\* rejected with the "cannot follow self" validation error, and no
\* Subscribe row has follower equal to author.
C4_SelfSubscribeRejected ==
    /\ (response.op = "subscribe_create" /\ response.user = response.target)
          => /\ response.status = "400"
             /\ response.errors = {Error("errors", "ERROR_FOLLOW_YOUSELF")}
    /\ \A u \in Users : ~Exists(subscribe, SubscribeRow(u, u))

\* The creation contract for one table: conflict and nothing changed when
\* the row is there, else the row added once and nothing else changed.
CreationContract(table, table_after, row, message) ==
    IF Exists(table, row)
    THEN /\ response'.status = "400"
         /\ response'.errors = {Error("errors", message)}
         /\ store' = store
    ELSE /\ response'.status = "201"
         /\ response'.errors = {}
         /\ table_after = table (+) Row(row)
         /\ CopiesIn(row, table_after) = 1

\* C5: favorite and cart creation for a user and an existing recipe: when
\* the row of the pair exists the request fails with the "already exists"
\* error and the store is unchanged; otherwise exactly one row of the pair
\* is created (and the other tables stay as they were).
C5_CreationContract ==
    [][/\ (response'.op = "favorite_create" /\ RecipeExists(response'.target))
             => /\ CreationContract(favorite_recipe, favorite_recipe',
                                    FavoriteRow(response'.user, response'.target),
                                    "RECIPE_ALREADY_IN_FAVORITE")
                /\ UNCHANGED <<recipe, recipe_tags, ingredient_amount, cart, subscribe>>
       /\ (response'.op = "cart_create" /\ RecipeExists(response'.target))
             => /\ CreationContract(cart, cart',
                                    CartRow(response'.user, response'.target),
                                    "RECIPE_ALREADY_IN_SHOPLIST")
                /\ UNCHANGED <<recipe, recipe_tags, ingredient_amount,
                               favorite_recipe, subscribe>>]_vars

\* C5 witness: the second attempt to favorite a recipe was rejected with
\* the conflict error, the row of the first attempt in place.
C5_Witness ==
    /\ response.op = "favorite_create"
    /\ response.status = "400"
    /\ response.errors = {Error("errors", "RECIPE_ALREADY_IN_FAVORITE")}
    /\ CopiesIn(FavoriteRow(response.user, response.target), favorite_recipe) = 1

\* The deletion contract for one table: "not present" and nothing changed
\* when the row is not there, else that row deleted, nothing else changed,
\* and success with no body.
DeletionContract(table, table_after, row, message) ==
    IF ~Exists(table, row)
    THEN /\ response'.status = "400"
         /\ response'.errors = {Error("errors", message)}
         /\ table_after = table
    ELSE /\ response'.status = "204"
         /\ response'.errors = {}
         /\ response'.body = NoBody
         /\ table_after = table (-) Row(row)

\* C6: favorite, cart and subscription deletion (the target of a
\* subscription deletion an existing user): when the row of the pair is
\* absent the request fails with the "not present" error and the store is
\* unchanged; otherwise exactly that row is deleted, every other row stays,
\* and the response is a success without body.
C6_DeletionContract ==
    [][/\ response'.op = "favorite_delete"
             => /\ DeletionContract(favorite_recipe, favorite_recipe',
                                    FavoriteRow(response'.user, response'.target),
                                    "ERROR_FAVORITE_RECIPE")
                /\ UNCHANGED <<recipe, recipe_tags, ingredient_amount, cart, subscribe>>
       /\ response'.op = "cart_delete"
             => /\ DeletionContract(cart, cart',
                                    CartRow(response'.user, response'.target),
                                    "ERROR_RECIPE_DOESNT_CART")
                /\ UNCHANGED <<recipe, recipe_tags, ingredient_amount,
                               favorite_recipe, subscribe>>
       /\ (response'.op = "subscribe_delete" /\ response'.target \in Users)
             => /\ DeletionContract(subscribe, subscribe',
                                    SubscribeRow(response'.user, response'.target),
                                    "ERROR_FOLLOW_AUTHOR")
                /\ UNCHANGED <<recipe, recipe_tags, ingredient_amount,
                               favorite_recipe, cart>>]_vars

\* The conditions of spec 4.1 on a payload that carries every field
RecipeConditions(d) ==
    /\ Len(d.name) >= 4
    /\ \A i \in DOMAIN d.ingredients : d.ingredients[i].id \in IngredientIds
    /\ \A i, j \in DOMAIN d.ingredients :
          i # j => d.ingredients[i].id # d.ingredients[j].id
    /\ \A i \in DOMAIN d.ingredients : d.ingredients[i].amount >= 1
    /\ \A i, j \in DOMAIN d.tags : i # j => d.tags[i] # d.tags[j]
    /\ d.cooking_time >= 1 /\ d.cooking_time <= 300

\* a payload of the claim: every field sent, every tag id the id of a Tag
\* (a tag id that names no Tag is the not-found error of the tags field)
WellFormed(d) == RecipeKeys \subseteq DOMAIN d /\ Range(d.tags) \subseteq TagIds

InCartAmountRows(u) ==
    {x \in BagToSet(ingredient_amount) : Exists(cart, CartRow(u, x.recipe))}

PairOf(x) == [name |-> Ingredient(x.ingredient).name,
              unit |-> Ingredient(x.ingredient).measurement_unit]

RECURSIVE SumOf(_)
SumOf(rows) ==
    IF rows = {} THEN 0
    ELSE LET x == CHOOSE x \in rows : TRUE IN x.amount + SumOf(rows \ {x})

ExpectedLines(u) ==
    {[name |-> Some(p.name), unit |-> Some(p.unit),
      amount |-> Some(SumOf({x \in InCartAmountRows(u) : PairOf(x) = p}))] :
       p \in {PairOf(x) : x \in InCartAmountRows(u)}}

\* C8: the shopping list of a user with a non-empty cart has exactly one
\* line for each (ingredient name, measurement unit) pair of the
\* IngredientAmount rows of the recipes in the cart, with the sum of the
\* amounts of those rows, and nothing else.
C8_ListIsAggregation ==
    [][(response'.op = "download_file" /\ response'.status = "200")
          => /\ Range(response'.body) = ExpectedLines(response'.user)
             /\ Len(response'.body) = Cardinality(ExpectedLines(response'.user))]_vars

\* update() has run to its end: the response is the recipe, or the
\* KeyError of the representation that follows the save
Saved(resp) == resp.status = "200" \/ resp.errors = {Error("", "KeyError")}

RowsOfList(r, ingredients) ==
    {[recipe |-> r, ingredient |-> ingredients[i].id,
      amount |-> ingredients[i].amount] : i \in DOMAIN ingredients}

\* C9: after an update of recipe r with ingredient list L has been saved,
\* the IngredientAmount rows of r are exactly the (ingredient, amount)
\* pairs of L, one row each, and the rows of every other recipe are as
\* they were.
C9_UpdateReplaces ==
    [][(response'.op = "recipe_update" /\ Saved(response'))
          => \A data \in RecipeData \cup PartialData, partial \in BOOLEAN :
                (Has(data, "ingredients") /\ RecipeUpdate(response'.target, data, partial))
                   => LET r == response'.target IN
                      /\ {x \in BagToSet(ingredient_amount') : x.recipe = r}
                            = RowsOfList(r, data.ingredients)
                      /\ \A x \in BagToSet(ingredient_amount') :
                            x.recipe = r => ingredient_amount'[x] = 1
                      /\ \A x \in BagToSet(ingredient_amount)
                                     \cup BagToSet(ingredient_amount') :
                            x.recipe # r =>
                               CopiesIn(x, ingredient_amount')
                                  = CopiesIn(x, ingredient_amount)]_vars

\* C9 witness: an update was saved that left its recipe with the one row
\* of its list, the other recipe with its two rows.
C9_Witness ==
    /\ response.op = "recipe_update"
    /\ Saved(response)
    /\ AmountRows(response.target)
          = {[recipe |-> response.target, ingredient |-> 1, amount |-> MaxAmount]}
    /\ \E r \in RecipeIds \ {response.target} : Cardinality(AmountRows(r)) = 2

\* C10: a recipe response (to a read, a create or an update that is not
\* rejected) carries is_favorited and is_in_shopping_cart equal to the
\* existence of the FavoriteRecipe and the Cart row of (requester, recipe),
\* both FALSE for an anonymous requester.
C10_FlagsMatchRows ==
    [][(/\ response'.op \in {"recipe_retrieve", "recipe_create", "recipe_update"}
        /\ response'.status \notin {"400", "404"})
          => /\ response'.status \in {"200", "201"}
             /\ Len(response'.body) = 1
             /\ response'.body[1].is_favorited
                   = (/\ is_authenticated(response'.user)
                      /\ Exists(favorite_recipe',
                                FavoriteRow(response'.user, response'.body[1].id)))
             /\ response'.body[1].is_in_shopping_cart
                   = (/\ is_authenticated(response'.user)
                      /\ Exists(cart', CartRow(response'.user, response'.body[1].id)))]_vars

\* C11: in a user list and in a subscriptions list asked for by a user,
\* is_subscribed of an
\* entry is TRUE if and only if a Subscribe row exists for (requester,
\* target), the target being the listed user and, in a subscriptions list,
\* the author of the entry; a subscriptions list has one entry per author
\* the requester follows.
C11_IsSubscribedMatchesRows ==
    [][/\ (response'.op = "user_list" /\ is_authenticated(response'.user))
             => /\ response'.status = "200"
                /\ \A i \in DOMAIN response'.body :
                      response'.body[i].is_subscribed
                         = Exists(subscribe',
                                  SubscribeRow(response'.user, response'.body[i].id))
       /\ response'.op = "subscriptions"
             => /\ response'.status = "200"
                /\ {response'.body[i].id : i \in DOMAIN response'.body}
                      = {a \in Users : Exists(subscribe', SubscribeRow(response'.user, a))}
                /\ \A i \in DOMAIN response'.body :
                      response'.body[i].is_subscribed = TRUE]_vars

\* C12: a shopping-list request by a user without cart rows is answered
\* with the empty-cart client error and no document; one by a user with a
\* cart row is answered with the document and not with that error.
C12_EmptyCartIsError ==
    [][response'.op = "download_file"
          => IF \E r \in RecipeIds : Exists(cart', CartRow(response'.user, r))
             THEN /\ response'.status = "200"
                  /\ response'.errors = {}
                  /\ response'.body # NoBody
             ELSE /\ response'.status = "400"
                  /\ response'.errors = {Error("", "EMPTY_CART")}
                  /\ response'.body = NoBody]_vars

\* C12 witness: the empty-cart error for a user while another user's cart
\* holds a recipe.
C12_Witness ==
    /\ response.op = "download_file"
    /\ response.status = "400"
    /\ \E u \in Users \ {response.user}, r \in RecipeIds : Exists(cart, CartRow(u, r))

\* The fields of a payload (every field sent) that break a condition of
\* spec 4.1, named as the claim names them
ViolatedFields(d) ==
    (IF Len(d.name) < 4 THEN {"name"} ELSE {})
    \cup (IF \/ \E i \in DOMAIN d.ingredients : d.ingredients[i].id \notin IngredientIds
             \/ \E i, j \in DOMAIN d.ingredients :
                   i # j /\ d.ingredients[i].id = d.ingredients[j].id
          THEN {"ingredients"} ELSE {})
    \cup (IF \/ \E i, j \in DOMAIN d.tags : i # j /\ d.tags[i] = d.tags[j]
             \/ \E i \in DOMAIN d.tags : d.tags[i] \notin TagIds
          THEN {"tags"} ELSE {})
    \cup (IF \E i \in DOMAIN d.ingredients : d.ingredients[i].amount < 1
          THEN {"amount"} ELSE {})
    \cup (IF d.cooking_time < 1 \/ d.cooking_time > 300 THEN {"cooking_time"} ELSE {})

C14_StoredRecipesValid ==
    /\ \A x \in recipe :
          Len(x.name) >= 4 /\ x.cooking_time >= 1 /\ x.cooking_time <= 300
    /\ \A x \in BagToSet(ingredient_amount) :
          /\ x.amount >= 1
          /\ x.ingredient \in IngredientIds
          /\ ingredient_amount[x] = 1
          /\ \A y \in BagToSet(ingredient_amount) :
                (y.recipe = x.recipe /\ y.ingredient = x.ingredient) => y = x

\* C14 witness: an update was rejected with recipes stored, one of them
\* with two ingredient rows.
C14_Witness ==
    /\ response.op = "recipe_update"
    /\ response.status = "400"
    /\ Cardinality(recipe) = MaxRecipes
    /\ \E x \in recipe : Cardinality(AmountRows(x.id)) = 2

\* C15: the shopping list is deterministic and ordered: two generations of
\* a user's list on one store state give the same lines in the same order,
\* and the lines come by ingredient name ascending.
C15_ListDeterministic ==
    [][(/\ response.op = "download_file" /\ response.status = "200"
        /\ response'.op = "download_file" /\ response'.status = "200"
        /\ response'.user = response.user
        /\ store' = store)
          => /\ response'.body = response.body
             /\ \A i, j \in DOMAIN response'.body :
                   (/\ i < j
                    /\ response'.body[i].name # Null
                    /\ response'.body[j].name # Null)
                      => response'.body[i].name[1] <= response'.body[j].name[1]]_vars

\* C16: every line of a generated shopping list names an Ingredient of the
\* table with its unit and carries a sum of at least 1.
C16_LinesNameIngredients ==
    (response.op = "download_file" /\ response.status = "200")
        => \A i \in DOMAIN response.body :
              LET line == response.body[i] IN
              /\ line.name # Null /\ line.unit # Null /\ line.amount # Null
              /\ \E k \in IngredientIds :
                    /\ Ingredient(k).name = line.name[1]
                    /\ Ingredient(k).measurement_unit = line.unit[1]
              /\ line.amount[1] >= 1

=============================================================================
